---- MODULE Spec2Model ----
(***************************************************************************)
(* Model of bin/prepare.py: a single forward pass that loads a metadata    *)
(* table, checks its schema, resolves per-barcode fastq directories,       *)
(* annotates the amplicon scheme and the platform, and writes              *)
(* sample_config.csv.                                                      *)
(*                                                                         *)
(* Strings are sequences of one-character strings, so that str.lower(),    *)
(* str.endswith(), os.path.join() and the regular expression are computed  *)
(* character by character.  A data frame is a record                       *)
(*   [columns: sequence of names, index: sequence of row labels,           *)
(*    rows: sequence of rows, each a sequence of cells].                   *)
(***************************************************************************)
EXTENDS Integers, Sequences, FiniteSets

VARIABLES args, file, metadata, existing_paths, path_exists, out, err, ran

vars == <<args, file, metadata, existing_paths, path_exists, out, err, ran>>

----------------------------------------------------------------------------
(* Bounds *)

\* rows of a file whose header is one of RowHeaders
MaxRows == 2

\* rows of a file whose header is one of ColumnHeaders
MaxHeaderRows == 1

----------------------------------------------------------------------------
(* Strings *)

UpperCase == <<"A","B","C","D","E","F","G","H","I","J","K","L","M",
               "N","O","P","Q","R","S","T","U","V","W","X","Y","Z">>

LowerCase == <<"a","b","c","d","e","f","g","h","i","j","k","l","m",
               "n","o","p","q","r","s","t","u","v","w","x","y","z">>

Digits == {"0","1","2","3","4","5","6","7","8","9"}

Whitespace == {" ", "\t", "\n", "\r"}

lower_char(c) ==
    IF \E i \in 1..26 : UpperCase[i] = c
    THEN LowerCase[CHOOSE i \in 1..26 : UpperCase[i] = c]
    ELSE c

\* str.lower()
lower(s) == [i \in 1..Len(s) |-> lower_char(s[i])]

\* str.endswith(suffix)
endswith(s, suffix) ==
    /\ Len(s) >= Len(suffix)
    /\ SubSeq(s, Len(s) - Len(suffix) + 1, Len(s)) = suffix

\* A missing cell (pandas NaN) and Python's None.  Neither is a string.
NaN == <<"NaN">>
None == <<"None">>

\* pandas isna(): both NaN and None count as missing
isna(v) == v \in {NaN, None}

\* os.path.join(a, b) for two components
path_join(a, b) ==
    IF Len(b) > 0 /\ b[1] = "/" THEN b
    ELSE IF Len(a) = 0 \/ a[Len(a)] = "/" THEN a \o b
    ELSE a \o <<"/">> \o b

----------------------------------------------------------------------------
(* Data frames *)

EmptyFrame == [columns |-> <<>>, index |-> <<>>, rows |-> <<>>]

\* positions of the columns called name
col_positions(df, name) == {i \in 1..Len(df.columns) : df.columns[i] = name}

has_column(df, name) == col_positions(df, name) # {}

col_pos(df, name) == CHOOSE i \in col_positions(df, name) : TRUE

\* df[name] as a sequence of cells, for a name carried by exactly one column
series(df, name) == [r \in 1..Len(df.rows) |-> df.rows[r][col_pos(df, name)]]

\* Series.unique().size: NaN is one value among the others
unique_size(s) == Cardinality({s[r] : r \in 1..Len(s)})

RECURSIVE keep_positions(_, _)
keep_positions(n, keep) ==
    IF n = 0 THEN <<>>
    ELSE IF n \in keep THEN Append(keep_positions(n - 1, keep), n)
    ELSE keep_positions(n - 1, keep)

\* variant: the labels of the kept rows over the leading rows of the frame
take_rows_misaligned(df, keep) ==
    LET pos == keep_positions(Len(df.rows), keep) IN
    [columns |-> df.columns,
     index   |-> [k \in 1..Len(pos) |-> df.index[pos[k]]],
     rows    |-> [k \in 1..Len(pos) |-> df.rows[k]]]

\* the rows at the positions in keep, in order, with their index labels
take_rows(df, keep) ==
    LET pos == keep_positions(Len(df.rows), keep) IN
    [columns |-> df.columns,
     index   |-> [k \in 1..Len(pos) |-> df.index[pos[k]]],
     rows    |-> [k \in 1..Len(pos) |-> df.rows[pos[k]]]]

\* df.dropna(subset=[name])
dropna(df, name) ==
    take_rows(df, {r \in 1..Len(df.rows) : ~isna(df.rows[r][col_pos(df, name)])})

\* df[name] = df.apply(lambda row: value, axis=1)
set_column(df, name, value) ==
    IF has_column(df, name)
    THEN [df EXCEPT !.rows =
            [r \in 1..Len(df.rows) |->
                [df.rows[r] EXCEPT ![col_pos(df, name)] = value]]]
    ELSE [df EXCEPT !.columns = Append(df.columns, name),
                    !.rows = [r \in 1..Len(df.rows) |-> Append(df.rows[r], value)]]

\* df.at[label of row r, name] = value; a new column starts as NaN
set_at(df, r, name, value) ==
    LET d == IF has_column(df, name) THEN df ELSE set_column(df, name, NaN) IN
    [d EXCEPT !.rows[r][col_pos(d, name)] = value]

----------------------------------------------------------------------------
(* String constants of the program *)

s_sample == <<"s","a","m","p","l","e">>
s_barcode == <<"b","a","r","c","o","d","e">>
s_fastq_directory == <<"f","a","s","t","q","_","d","i","r","e","c","t","o","r","y">>
s_platform == <<"p","l","a","t","f","o","r","m">>
s_scheme_name == <<"s","c","h","e","m","e","_","n","a","m","e">>
s_custom_scheme_path == <<"c","u","s","t","o","m","_","s","c","h","e","m","e","_","p","a","t","h">>
s_custom_scheme_name == <<"c","u","s","t","o","m","_","s","c","h","e","m","e","_","n","a","m","e">>
s_nanopore == <<"n","a","n","o","p","o","r","e">>
s_ont == <<"o","n","t">>
s_null == <<"n","u","l","l">>
ext_csv == <<".","c","s","v">>
ext_xls == <<".","x","l","s">>
ext_xlsx == <<".","x","l","s","x">>
glob_word == <<"a","r","c","o","d","e">>

----------------------------------------------------------------------------
(* load_metadata *)

\* the extension test of load_metadata: TRUE when the file is read
load_metadata_accepts(metadata_file) ==
    \/ endswith(metadata_file, ext_csv)
    \/ endswith(metadata_file, ext_xls)
    \/ endswith(metadata_file, ext_xlsx)

\* the frame read from a file: rows labelled 0, 1, 2, ...
read_frame(f) ==
    [columns |-> f.columns,
     index   |-> [r \in 1..Len(f.rows) |-> r - 1],
     rows    |-> f.rows]

----------------------------------------------------------------------------
(* check_metadata *)

required_columns == <<s_sample, s_barcode>>

\* the three accepted spellings of a required column
column_matches(col, metadata_col) ==
    \/ col = lower(metadata_col)
    \/ col \o <<"s">> = lower(metadata_col)
    \/ col \o <<"_","n","a","m","e">> = lower(metadata_col)

\* variant: the loop without its breaks keeps the last match
first_match_last(columns, col) ==
    IF \E i \in 1..Len(columns) : column_matches(col, columns[i])
    THEN CHOOSE i \in 1..Len(columns) :
            /\ column_matches(col, columns[i])
            /\ \A j \in (i + 1)..Len(columns) : ~column_matches(col, columns[j])
    ELSE 0

\* the inner loop with its breaks: position of the first match, 0 if none
first_match(columns, col) ==
    IF \E i \in 1..Len(columns) : column_matches(col, columns[i])
    THEN CHOOSE i \in 1..Len(columns) :
            /\ column_matches(col, columns[i])
            /\ \A j \in 1..(i - 1) : ~column_matches(col, columns[j])
    ELSE 0

\* key_dict as a set of <<metadata_col, col>> pairs
key_dict(columns) ==
    {<<columns[first_match(columns, required_columns[k])], required_columns[k]>> :
        k \in {k \in 1..Len(required_columns) :
                 first_match(columns, required_columns[k]) # 0}}

\* len(key_dict): the number of distinct keys
key_dict_len(kd) == Cardinality({p[1] : p \in kd})

\* metadata.rename(columns=key_dict)
rename(df, kd) ==
    [df EXCEPT !.columns =
        [i \in 1..Len(df.columns) |->
            IF \E p \in kd : p[1] = df.columns[i]
            THEN (CHOOSE p \in kd : p[1] = df.columns[i])[2]
            ELSE df.columns[i]]]

\* df[name] is a Series only when one column carries the name
is_series(df, name) == Cardinality(col_positions(df, name)) = 1

\* variant: ">" in place of "!="
has_duplicates_greater(df, name) == unique_size(series(df, name)) > Len(df.rows)

has_duplicates(df, name) == unique_size(series(df, name)) # Len(df.rows)

\* variant: the sample column examined before the barcode column
check_metadata_sample_first(df) ==
    LET kd == key_dict(df.columns)
        renamed == rename(df, kd)
    IN  IF key_dict_len(kd) # Len(required_columns)
        THEN [err |-> "MissingColumns", df |-> df]
        ELSE IF ~is_series(renamed, s_sample)
        THEN [err |-> "AttributeError", df |-> renamed]
        ELSE IF has_duplicates(renamed, s_sample)
        THEN [err |-> "DuplicateSample", df |-> renamed]
        ELSE IF ~is_series(renamed, s_barcode)
        THEN [err |-> "AttributeError", df |-> renamed]
        ELSE IF has_duplicates(renamed, s_barcode)
        THEN [err |-> "DuplicateBarcode", df |-> renamed]
        ELSE [err |-> "none", df |-> dropna(renamed, s_sample)]

\* check_metadata: the error raised ("none" if it returns) and the frame as
\* it is left, renamed in place before the duplicate checks
check_metadata(df) ==
    LET kd == key_dict(df.columns)
        renamed == rename(df, kd)
    IN  IF key_dict_len(kd) # Len(required_columns)
        THEN [err |-> "MissingColumns", df |-> df]
        ELSE IF ~is_series(renamed, s_barcode)
        THEN [err |-> "AttributeError", df |-> renamed]
        ELSE IF has_duplicates(renamed, s_barcode)
        THEN [err |-> "DuplicateBarcode", df |-> renamed]
        ELSE IF ~is_series(renamed, s_sample)
        THEN [err |-> "AttributeError", df |-> renamed]
        ELSE IF has_duplicates(renamed, s_sample)
        THEN [err |-> "DuplicateSample", df |-> renamed]
        ELSE [err |-> "none", df |-> dropna(renamed, s_sample)]

----------------------------------------------------------------------------
(* add_fastq_path_to_metadata *)

\* pathlib.Path(run_dir).resolve() of an absolute path: no trailing slash
resolve(p) ==
    IF Len(p) > 1 /\ p[Len(p)] = "/" THEN SubSeq(p, 1, Len(p) - 1) ELSE p

contains(s, word) ==
    \E i \in 1..(Len(s) - Len(word) + 1) : SubSeq(s, i, i + Len(word) - 1) = word

\* glob.glob(os.path.join(run_dir, "*arcode*")) over the directory's entries
glob_barcodes(run_dir, entries) ==
    {path_join(run_dir, n) : n \in {n \in entries : contains(n, glob_word) /\ n[1] # "."}}

\* variant: no fallback to the lower-cased barcode
row_fastq_directory_exact_only(df0, r, run_dir, paths) ==
    LET barcode == df0.rows[r][col_pos(df0, s_barcode)] IN
    IF /\ has_column(df0, s_fastq_directory)
       /\ df0.rows[r][col_pos(df0, s_fastq_directory)] # None
       /\ df0.rows[r][col_pos(df0, s_fastq_directory)] \in paths
    THEN <<"keep">>
    ELSE IF isna(barcode) THEN <<"TypeError">>
    ELSE IF path_join(run_dir, barcode) \in paths THEN path_join(run_dir, barcode)
    ELSE None

\* the value the loop body gives one row: "keep" for the continue branch,
\* "TypeError" when os.path.join is handed a missing barcode
row_fastq_directory(df0, r, run_dir, paths) ==
    LET barcode == df0.rows[r][col_pos(df0, s_barcode)] IN
    IF /\ has_column(df0, s_fastq_directory)
       /\ df0.rows[r][col_pos(df0, s_fastq_directory)] # None
       /\ df0.rows[r][col_pos(df0, s_fastq_directory)] \in paths
    THEN <<"keep">>
    ELSE IF isna(barcode) THEN <<"TypeError">>
    ELSE IF path_join(run_dir, barcode) \in paths THEN path_join(run_dir, barcode)
    ELSE IF path_join(run_dir, lower(barcode)) \in paths
    THEN path_join(run_dir, lower(barcode))
    ELSE None

\* the iterrows loop over rows r..n; rows are read from the frame df0 as it
\* was when the loop started, writes go to df
RECURSIVE fastq_loop(_, _, _, _, _)
fastq_loop(df0, df, r, run_dir, paths) ==
    IF r > Len(df0.rows) THEN [err |-> "none", df |-> df]
    ELSE LET v == row_fastq_directory(df0, r, run_dir, paths) IN
         IF v = <<"TypeError">> THEN [err |-> "TypeError", df |-> df]
         ELSE IF v = <<"keep">> THEN fastq_loop(df0, df, r + 1, run_dir, paths)
         ELSE fastq_loop(df0, set_at(df, r, s_fastq_directory, v), r + 1, run_dir, paths)

add_fastq_path_to_metadata(df, run_dir, platform, entries) ==
    IF platform # s_nanopore
    THEN [err |-> "UnsupportedPlatform", df |-> df, paths |-> {}]
    ELSE LET paths == glob_barcodes(resolve(run_dir), entries)
             looped == fastq_loop(df, df, 1, resolve(run_dir), paths)
         IN  IF looped.err # "none"
             THEN [err |-> looped.err, df |-> looped.df, paths |-> paths]
             ELSE IF ~has_column(looped.df, s_fastq_directory)
             THEN [err |-> "KeyError", df |-> looped.df, paths |-> paths]
             ELSE [err |-> "none", df |-> dropna(looped.df, s_fastq_directory),
                   paths |-> paths]

----------------------------------------------------------------------------
(* add_amplicon_scheme_to_metadata *)

is_nonspace(c) == c \notin Whitespace
is_digit(c) == c \in Digits

\* the character classes of the pattern: "d" for \d, "S" for \S
in_class(class, c) == IF class = "d" THEN is_digit(c) ELSE is_nonspace(c)

\* Matching is done on sets of positions (characters consumed so far).
\* after_run: at least min characters of a class; after_one: exactly one;
\* after_lit: one literal character.
after_run(s, P, class, min) ==
    {q \in 0..Len(s) :
        \E p \in P : /\ q >= p + min
                     /\ \A k \in (p + 1)..q : in_class(class, s[k])}

after_one(s, P, class) ==
    {p + 1 : p \in {p \in P : p < Len(s) /\ in_class(class, s[p + 1])}}

after_lit(s, P, c) ==
    {p + 1 : p \in {p \in P : p < Len(s) /\ s[p + 1] = c}}

\* "$" without re.MULTILINE: the end, or just before a final newline
at_dollar(s, P) ==
    \E p \in P : \/ p = Len(s)
                 \/ p = Len(s) - 1 /\ s[Len(s)] = "\n"

\* re.match(r'^\S*\/\d{min_digits,}\/v\d\.\d\.\d(-\S+)?$', s)
scheme_regex(s, min_digits) ==
    LET name    == after_run(s, {0}, "S", 0)
        slash1  == after_lit(s, name, "/")
        number  == after_run(s, slash1, "d", min_digits)
        slash2  == after_lit(s, number, "/")
        v       == after_lit(s, slash2, "v")
        major   == after_one(s, v, "d")
        dot1    == after_lit(s, major, ".")
        minor   == after_one(s, dot1, "d")
        dot2    == after_lit(s, minor, ".")
        patch   == after_one(s, dot2, "d")
        dash    == after_lit(s, patch, "-")
        suffix  == after_run(s, dash, "S", 1)
    IN  at_dollar(s, patch \cup suffix)

\* variant: \d{2,}
scheme_regex_two_digits(s) == scheme_regex(s, 2)

scheme_regex_match(s) == scheme_regex(s, 3)

\* the test that selects the custom-scheme branch
is_custom_mode(custom_scheme_path) == custom_scheme_path \notin {None, <<>>, s_null}

\* variant: the two custom columns take each other's value
add_amplicon_scheme_swapped(df, amplicon_scheme, custom_scheme_path, found) ==
    IF is_custom_mode(custom_scheme_path)
    THEN IF ~found
         THEN [err |-> "CustomSchemePathNotFound", df |-> df]
         ELSE [err |-> "none",
               df |-> set_column(set_column(df, s_custom_scheme_path, amplicon_scheme),
                                 s_custom_scheme_name, custom_scheme_path)]
    ELSE IF ~scheme_regex_match(amplicon_scheme)
         THEN [err |-> "InvalidSchemeFormat", df |-> df]
         ELSE [err |-> "none", df |-> set_column(df, s_scheme_name, amplicon_scheme)]

add_amplicon_scheme_to_metadata(df, amplicon_scheme, custom_scheme_path, found) ==
    IF is_custom_mode(custom_scheme_path)
    THEN IF ~found
         THEN [err |-> "CustomSchemePathNotFound", df |-> df]
         ELSE [err |-> "none",
               df |-> set_column(set_column(df, s_custom_scheme_path, custom_scheme_path),
                                 s_custom_scheme_name, amplicon_scheme)]
    ELSE IF ~scheme_regex_match(amplicon_scheme)
         THEN [err |-> "InvalidSchemeFormat", df |-> df]
         ELSE [err |-> "none", df |-> set_column(df, s_scheme_name, amplicon_scheme)]

----------------------------------------------------------------------------
(* add_platform_to_metadata, save_metadata *)

add_platform_to_metadata(df, platform) == set_column(df, s_platform, platform)

NoFile == [exists |-> FALSE, columns |-> <<>>, rows |-> <<>>]

\* open(output_file, 'w'), the notna filter, to_csv(index=False)
save_metadata(df) ==
    LET kept == take_rows(df, {r \in 1..Len(df.rows) :
                                  ~isna(df.rows[r][col_pos(df, s_sample)])})
    IN  [exists |-> TRUE, columns |-> kept.columns, rows |-> kept.rows]

----------------------------------------------------------------------------
(* Inputs *)

c_Sample == <<"S","a","m","p","l","e">>
c_Samples == <<"S","a","m","p","l","e","s">>
c_SAMPLE_NAME == <<"S","A","M","P","L","E","_","N","A","M","E">>
c_sample_id == <<"s","a","m","p","l","e","_","i","d">>
c_Barcodes == <<"B","a","r","c","o","d","e","s">>
c_BARCODE_NAME == <<"B","A","R","C","O","D","E","_","N","A","M","E">>
c_notes == <<"n","o","t","e","s">>

v_s1 == <<"s","1">>
v_s2 == <<"s","2">>
v_barcode01 == <<"b","a","r","c","o","d","e","0","1">>
v_Barcode01 == <<"B","a","r","c","o","d","e","0","1">>
v_unclassified == <<"u","n","c","l","a","s","s","i","f","i","e","d">>
v_x == <<"x">>
v_run == <<"/","r">>
v_run_slash == <<"/","r","/">>
v_dir01 == <<"/","r","/","b","a","r","c","o","d","e","0","1">>

\* the cells a column of the input file may hold, by column name
cell_values(name) ==
    IF name = s_sample THEN {v_s1, v_s2, NaN}
    ELSE IF name = c_SAMPLE_NAME THEN {v_s1, v_s2}
    ELSE IF name \in {c_Sample, c_Samples, c_sample_id} THEN {v_s1, NaN}
    ELSE IF name = s_barcode THEN {v_barcode01, v_Barcode01, NaN}
    ELSE IF name = c_BARCODE_NAME THEN {v_barcode01, v_Barcode01}
    ELSE IF name = c_Barcodes THEN {v_barcode01, NaN}
    ELSE IF name = s_fastq_directory THEN {v_dir01, NaN}
    ELSE {v_x, NaN}

AllCells == {v_s1, v_s2, v_barcode01, v_Barcode01, v_dir01, v_x, NaN}

\* headers whose files carry up to MaxRows rows
RowHeaders ==
    { <<s_sample, s_barcode>>,
      <<c_BARCODE_NAME, s_sample, c_notes>>,
      <<c_SAMPLE_NAME, s_barcode, s_fastq_directory>> }

\* headers whose files carry up to MaxHeaderRows rows
ColumnHeaders ==
    { <<c_Samples, c_Barcodes, c_notes>>,
      <<c_sample_id, s_barcode>>,
      <<s_sample, c_notes>>,
      <<c_notes>>,
      <<c_Sample, s_sample, s_barcode>>,
      <<c_Barcodes, s_barcode, s_sample>>,
      <<c_SAMPLE_NAME, c_Samples, s_barcode>>,
      <<c_Samples, c_SAMPLE_NAME, s_barcode>>,
      <<s_sample, s_barcode, s_platform>>,
      <<s_sample, s_barcode, s_scheme_name>>,
      <<s_sample, s_barcode, s_custom_scheme_name>>,
      <<s_sample, s_barcode, s_custom_scheme_path>> }

RowsOf(h) == {r \in [1..Len(h) -> AllCells] : \A i \in 1..Len(h) : r[i] \in cell_values(h[i])}

FilesOf(HeaderSet, n) ==
    UNION {{[columns |-> h, rows |-> rs] : rs \in UNION {[1..k -> RowsOf(h)] : k \in 0..n}} :
              h \in HeaderSet}

MainFiles == FilesOf(RowHeaders, MaxRows) \cup FilesOf(ColumnHeaders, MaxHeaderRows)

\* names that may exist in the run directory
DirEntries == {v_barcode01, v_Barcode01, v_unclassified}

----------------------------------------------------------------------------
(* main *)

\* args.platform = args.platform.lower(); "ont" becomes "nanopore"
normalise_platform(platform) ==
    IF lower(platform) = s_ont THEN s_nanopore ELSE lower(platform)

\* variant: the platform annotated before the scheme
main_stages_platform_first == <<"load", "check", "paths", "platform", "scheme", "write">>

\* the calls of main, in order
main_stages == <<"load", "check", "paths", "scheme", "platform", "write">>

next_stage == IF Len(ran) < Len(main_stages) THEN main_stages[Len(ran) + 1] ELSE "end"

at_stage(stage) == err = "none" /\ next_stage = stage

call_load_metadata ==
    /\ at_stage("load")
    /\ ran' = Append(ran, "load")
    /\ args' = [args EXCEPT !.platform = normalise_platform(args.platform)]
    /\ IF load_metadata_accepts(args.metadata)
       THEN metadata' = read_frame(file) /\ err' = "none"
       ELSE metadata' = metadata /\ err' = "UnsupportedFormat"
    /\ UNCHANGED <<file, existing_paths, path_exists, out>>

call_check_metadata ==
    /\ at_stage("check")
    /\ ran' = Append(ran, "check")
    /\ LET res == check_metadata(metadata) IN
        /\ metadata' = res.df
        /\ err' = res.err
    /\ UNCHANGED <<args, file, existing_paths, path_exists, out>>

call_add_fastq_path_to_metadata ==
    /\ at_stage("paths")
    /\ ran' = Append(ran, "paths")
    /\ \E entries \in SUBSET DirEntries :
        LET res == add_fastq_path_to_metadata(metadata, args.run_dir, args.platform, entries) IN
        /\ metadata' = res.df
        /\ existing_paths' = res.paths
        /\ err' = res.err
    /\ UNCHANGED <<args, file, path_exists, out>>

call_add_amplicon_scheme_to_metadata ==
    /\ at_stage("scheme")
    /\ ran' = Append(ran, "scheme")
    /\ \E found \in BOOLEAN :
        LET res == add_amplicon_scheme_to_metadata(metadata, args.amplicon_scheme,
                                                   args.custom_scheme_path, found) IN
        /\ path_exists' = (is_custom_mode(args.custom_scheme_path) /\ found)
        /\ metadata' = res.df
        /\ err' = res.err
    /\ UNCHANGED <<args, file, existing_paths, out>>

call_add_platform_to_metadata ==
    /\ at_stage("platform")
    /\ ran' = Append(ran, "platform")
    /\ metadata' = add_platform_to_metadata(metadata, args.platform)
    /\ UNCHANGED <<args, file, existing_paths, path_exists, out, err>>

call_save_metadata ==
    /\ at_stage("write")
    /\ ran' = Append(ran, "write")
    /\ out' = save_metadata(metadata)
    /\ UNCHANGED <<args, file, metadata, existing_paths, path_exists, err>>

Next ==
    \/ call_load_metadata
    \/ call_check_metadata
    \/ call_add_fastq_path_to_metadata
    \/ call_add_amplicon_scheme_to_metadata
    \/ call_add_platform_to_metadata
    \/ call_save_metadata

\* the state when main starts: the parsed arguments, the metadata file on
\* disk, no frame yet and no output file
InitWith(ArgSet, FileSet) ==
    /\ args \in ArgSet
    /\ file \in FileSet
    /\ metadata = EmptyFrame
    /\ existing_paths = {}
    /\ path_exists = FALSE
    /\ out = NoFile
    /\ err = "none"
    /\ ran = <<>>

----------------------------------------------------------------------------
(* Specifications *)

a_ONT == <<"O","N","T">>
a_Nanopore == <<"N","a","n","o","p","o","r","e">>
a_illumina == <<"i","l","l","u","m","i","n","a">>
a_csv == <<"m",".","c","s","v">>
a_txt == <<"m",".","t","x","t">>
a_xlsx == <<"m",".","x","l","s","x">>
a_good == <<"a","/","1","2","3","/","v","1",".","0",".","0">>
a_short == <<"a","/","1","2","/","v","1",".","0",".","0">>
a_custom == <<"/","c">>

MakeArgs(platform, metadata_file, amplicon_scheme, custom_scheme_path) ==
    [platform |-> platform, run_dir |-> v_run_slash, metadata |-> metadata_file,
     amplicon_scheme |-> amplicon_scheme, custom_scheme_path |-> custom_scheme_path]

\* command lines run against every file of MainFiles: one per scheme mode
MainArgs ==
    { MakeArgs(a_ONT, a_csv, a_good, None),
      MakeArgs(a_Nanopore, a_xlsx, v_x, a_custom) }

\* command lines that fail at some stage for every file
FailingArgs ==
    { MakeArgs(a_Nanopore, a_csv, a_short, None),
      MakeArgs(a_illumina, a_csv, a_good, None),
      MakeArgs(a_ONT, a_txt, a_good, None) }

\* two files that pass the schema check
SchemeFiles ==
    { [columns |-> <<s_sample, s_barcode>>, rows |-> <<<<v_s1, v_barcode01>>>>],
      [columns |-> <<s_sample, s_barcode>>,
       rows |-> <<<<v_s1, v_barcode01>>, <<v_s2, v_Barcode01>>>>] }

Init ==
    \/ InitWith(MainArgs, MainFiles)
    \/ InitWith(FailingArgs, SchemeFiles)

Spec == Init /\ [][Next]_vars

\* Scheme strings assembled from well-formed and malformed parts
SchemeNames == { <<>>, <<"a">>, <<"a","/","b">>, <<"a"," ","b">> }
SchemeNumbers == { <<"2","5">>, <<"2","5","0">>, <<"2","5","0","0">>, <<"2","a","0">> }
SchemeVs == { <<"v">>, <<>> }
SchemeVersions == { <<"1",".","0",".","0">>, <<"1",".","1","0",".","0">>, <<"1",".","0">>, <<"1","x","0",".","0">>, <<"1",".","0",".","0",".","0">> }
SchemeSuffixes == { <<>>, <<"-">>, <<"-","b">>, <<"-","b","/","c">>, <<"-","b"," ","c">>, <<"x">> }
SchemeTails == { <<>>, <<"\n">>, <<" ">> }

Schemes ==
    {n \o sep \o d \o <<"/">> \o v \o ver \o suf \o tail :
        n \in SchemeNames, sep \in {<<"/">>, <<>>}, d \in SchemeNumbers, v \in SchemeVs,
        ver \in SchemeVersions, suf \in SchemeSuffixes, tail \in SchemeTails}

\* every scheme string in built-in mode, a few in each spelling of the
\* custom_scheme_path argument
SchemeArgs ==
    {MakeArgs(a_ONT, a_csv, sch, None) : sch \in Schemes}
    \cup {MakeArgs(a_ONT, a_csv, sch, c) :
             sch \in {a_good, a_short, v_x}, c \in {<<>>, s_null, a_custom}}

InitScheme == InitWith(SchemeArgs, SchemeFiles)

SpecScheme == InitScheme /\ [][Next]_vars

----------------------------------------------------------------------------
(* Vocabulary of the properties, stated on the input file and the frames   *)
(* without the operators of the stages                                     *)

\* stage number n of main has run and returned
StageReturned(n) == Len(ran) >= n /\ (err = "none" \/ Len(ran) > n)

\* stage number n of main has run and raised error e
StageRaised(n, e) == Len(ran) = n /\ err = e

Position(columns, name) == CHOOSE i \in 1..Len(columns) : columns[i] = name

HasName(columns, name) == \E i \in 1..Len(columns) : columns[i] = name

Cell(table, k, name) == table.rows[k][Position(table.columns, name)]

\* the accepted spellings of required name c, lower-cased
Spellings(c) == {c, c \o <<"s">>, c \o <<"_","n","a","m","e">>}

MatchingPositions(columns, c) ==
    {i \in 1..Len(columns) : lower(columns[i]) \in Spellings(c)}

FirstPosition(columns, c) ==
    CHOOSE i \in MatchingPositions(columns, c) :
        \A j \in MatchingPositions(columns, c) : i <= j

BothMatched(columns) ==
    /\ MatchingPositions(columns, s_sample) # {}
    /\ MatchingPositions(columns, s_barcode) # {}

\* the input cells under the column matched for required name c
InputValues(c) ==
    LET i == FirstPosition(file.columns, c) IN
    [r \in 1..Len(file.rows) |-> file.rows[r][i]]

Repeats(values) == \E i, j \in 1..Len(values) : i # j /\ values[i] = values[j]

NoneMissing(values) == \A i \in 1..Len(values) : values[i] # NaN

NonNullRepeats(values) ==
    \E i, j \in 1..Len(values) : i # j /\ values[i] = values[j] /\ values[i] # NaN

\* after renaming, each canonical name is carried by one column only
CanonicalNamesUnique ==
    \A c \in {s_sample, s_barcode} :
        \A i \in 1..Len(file.columns) :
            file.columns[i] = c => i = FirstPosition(file.columns, c)

\* position in the frame read from the file of the row labelled lab
InputRow(lab) == lab + 1

Increasing(seq) == \A i, j \in 1..Len(seq) : i < j => seq[i] < seq[j]

----------------------------------------------------------------------------
(* C1 *)

DirOf(name) == v_run \o <<"/">> \o name

Assigned(df, r) ==
    IF HasName(df.columns, s_fastq_directory) THEN Cell(df, r, s_fastq_directory) ELSE NaN

\* the first of (1) assigned directory, (2) run_dir/barcode, (3) run_dir/lower
\* barcode that is an existing path; NaN when none is
FirstCandidate(df, r, paths) ==
    IF Assigned(df, r) \in paths THEN Assigned(df, r)
    ELSE IF DirOf(Cell(df, r, s_barcode)) \in paths THEN DirOf(Cell(df, r, s_barcode))
    ELSE IF DirOf(lower(Cell(df, r, s_barcode))) \in paths
    THEN DirOf(lower(Cell(df, r, s_barcode)))
    ELSE NaN

Resolved(before, after, paths) ==
    LET kept == {r \in 1..Len(before.rows) : FirstCandidate(before, r, paths) # NaN}
        posOf(k) == CHOOSE r \in 1..Len(before.rows) : before.index[r] = after.index[k]
    IN  /\ Len(after.rows) = Cardinality(kept)
        /\ Increasing(after.index)
        /\ \A k \in 1..Len(after.rows) :
            /\ \E r \in kept : before.index[r] = after.index[k]
            /\ Cell(after, k, s_fastq_directory) = FirstCandidate(before, posOf(k), paths)
            /\ Cell(after, k, s_barcode) = Cell(before, posOf(k), s_barcode)
            /\ Cell(after, k, s_sample) = Cell(before, posOf(k), s_sample)

----------------------------------------------------------------------------
(* C2 *)

\* C2: the schema check raises MissingColumns exactly when some required name
\* has no column whose lower-cased name is the name, the name + "s" or the
\* name + "_name"; otherwise, for each required name, the first matching
\* column in column order is the one that carries the canonical name, and
\* every other column keeps its name.
C2_MissingColumns ==
    Len(ran) >= 2 =>
        /\ (err = "MissingColumns") <=> ~BothMatched(file.columns)
        /\ BothMatched(file.columns) =>
            \A i \in 1..Len(file.columns) :
                metadata.columns[i] =
                    IF i = FirstPosition(file.columns, s_sample) THEN s_sample
                    ELSE IF i = FirstPosition(file.columns, s_barcode) THEN s_barcode
                    ELSE file.columns[i]

\* SAMPLE_NAME precedes Samples: SAMPLE_NAME is renamed, Samples is kept
C2_Witness ==
    /\ StageReturned(2)
    /\ file.columns = <<c_SAMPLE_NAME, c_Samples, s_barcode>>
    /\ SubSeq(metadata.columns, 1, 3) = <<s_sample, c_Samples, s_barcode>>

----------------------------------------------------------------------------
(* C3 *)

\* C3 as stated: with both required columns matched, a repeated barcode
\* value makes the check fail with DuplicateBarcode, a repeated sample value
\* makes it fail with DuplicateSample, and a table without repeats fails with
\* neither.  Stated for the tables without a missing sample or barcode.
C3_AsStated ==
    (/\ Len(ran) >= 2 /\ BothMatched(file.columns) /\ CanonicalNamesUnique
     /\ NoneMissing(InputValues(s_sample)) /\ NoneMissing(InputValues(s_barcode))) =>
        /\ Repeats(InputValues(s_barcode)) => err = "DuplicateBarcode"
        /\ Repeats(InputValues(s_sample)) => err = "DuplicateSample"
        /\ (~Repeats(InputValues(s_barcode)) /\ ~Repeats(InputValues(s_sample)))
              => err \notin {"DuplicateBarcode", "DuplicateSample"}

\* C3 amended: the barcode column is examined first, so a repeated sample
\* value yields DuplicateSample only when no barcode value repeats.  A
\* missing cell counts as a value, as Series.unique() has it.
C3_DuplicateOrder ==
    (Len(ran) >= 2 /\ BothMatched(file.columns) /\ CanonicalNamesUnique) =>
        /\ Repeats(InputValues(s_barcode)) => err = "DuplicateBarcode"
        /\ (Repeats(InputValues(s_sample)) /\ ~Repeats(InputValues(s_barcode)))
              => err = "DuplicateSample"
        /\ (~Repeats(InputValues(s_barcode)) /\ ~Repeats(InputValues(s_sample)))
              => err \notin {"DuplicateBarcode", "DuplicateSample"}

\* two rows with one sample name and two barcodes
C3_Witness ==
    /\ StageRaised(2, "DuplicateSample")
    /\ InputValues(s_sample) = <<v_s1, v_s1>>
    /\ InputValues(s_barcode) = <<v_barcode01, v_Barcode01>>

----------------------------------------------------------------------------
(* C4 *)

AllDigits(s, from, to) == \A k \in from..to : s[k] \in Digits

NoBlank(s, from, to) == \A k \in from..to : s[k] \notin Whitespace

\* s without one final newline
Chomp(s) == IF Len(s) > 0 /\ s[Len(s)] = "\n" THEN SubSeq(s, 1, Len(s) - 1) ELSE s

\* length of the longest run of digits of s starting at position from
DigitRun(s, from) ==
    CHOOSE n \in 0..Len(s) :
        /\ from + n - 1 <= Len(s)
        /\ AllDigits(s, from, from + n - 1)
        /\ (from + n <= Len(s) => s[from + n] \notin Digits)

\* t[from..] is v<d>.<d>.<d>, alone or followed by "-" and a non-empty
\* suffix; one_digit chooses between single digits and digit runs
VersionAt(t, from, one_digit) ==
    \E a, b, c \in 1..Len(t) :
        /\ one_digit => a = 1 /\ b = 1 /\ c = 1
        /\ from + a + b + c + 2 <= Len(t)
        /\ t[from] = "v"
        /\ AllDigits(t, from + 1, from + a)
        /\ t[from + a + 1] = "."
        /\ AllDigits(t, from + a + 2, from + a + b + 1)
        /\ t[from + a + b + 2] = "."
        /\ AllDigits(t, from + a + b + 3, from + a + b + c + 2)
        /\ LET end == from + a + b + c + 2 IN
            \/ end = Len(t)
            \/ /\ end + 2 <= Len(t)
               /\ t[end + 1] = "-"
               /\ NoBlank(t, end + 2, Len(t))

\* t is <name>/<number>/<version>, the name ending before slash number i
SchemeForm(t, empty_name, one_digit) ==
    \E i \in 1..Len(t) :
        /\ t[i] = "/"
        /\ empty_name \/ i > 1
        /\ NoBlank(t, 1, i - 1)
        /\ LET n == DigitRun(t, i + 1) IN
            /\ n >= 3
            /\ i + n + 2 <= Len(t)
            /\ t[i + n + 1] = "/"
            /\ VersionAt(t, i + n + 2, one_digit)

\* the form as the claim words it: a name (read as any run of non-blank
\* characters), a number of 3 or more digits, three version numbers, an
\* optional suffix
StatedForm(s) == SchemeForm(s, TRUE, FALSE)

\* the form the pattern accepts: the name may be empty, each version number
\* is one digit, one final newline is ignored
AcceptedForm(s) == SchemeForm(Chomp(s), TRUE, TRUE)

BuiltInMode == args.custom_scheme_path \in {None, <<>>, s_null}

SchemeNameOnEveryRow ==
    /\ HasName(metadata.columns, s_scheme_name)
    /\ \A k \in 1..Len(metadata.rows) : Cell(metadata, k, s_scheme_name) = args.amplicon_scheme

\* C4 as stated: in built-in mode the scheme string is accepted exactly when
\* it is <name>/<3+ digits>/v<major>.<minor>.<patch>[-<suffix>].  Stated for
\* the strings that start with a character of a name.
C4_AsStated ==
    (/\ Len(ran) >= 4 /\ BuiltInMode
     /\ Len(args.amplicon_scheme) > 0
     /\ args.amplicon_scheme[1] \notin Whitespace \cup {"/"}) =>
        IF StatedForm(args.amplicon_scheme)
        THEN err = "none" /\ SchemeNameOnEveryRow
        ELSE err = "InvalidSchemeFormat"

\* C4 amended: in built-in mode the scheme string is accepted exactly when,
\* one final newline apart, it is <name>/<3+ digits>/v<d>.<d>.<d>[-<suffix>]
\* with a name of zero or more non-blank characters, single digits d and a
\* non-empty non-blank suffix; every other string fails with
\* InvalidSchemeFormat, and on acceptance scheme_name is the scheme string on
\* every row.
C4_SchemeFormat ==
    (Len(ran) >= 4 /\ BuiltInMode) =>
        IF AcceptedForm(args.amplicon_scheme)
        THEN err = "none" /\ SchemeNameOnEveryRow
        ELSE err = "InvalidSchemeFormat"

\* an accepted scheme with a four-digit number and a suffix
C4_Witness ==
    /\ StageReturned(4) /\ BuiltInMode
    /\ args.amplicon_scheme =
          <<"a","/","2","5","0","0","/","v","1",".","0",".","0","-","b">>
    /\ Len(metadata.rows) > 0
    /\ SchemeNameOnEveryRow

----------------------------------------------------------------------------
(* C5 *)

CustomMode == ~BuiltInMode

\* after is before with the columns in added set to the given values on
\* every row and nothing else changed
Attached(before, after, added, value) ==
    /\ {after.columns[i] : i \in 1..Len(after.columns)}
          = {before.columns[i] : i \in 1..Len(before.columns)} \cup added
    /\ Len(after.columns) = Cardinality({after.columns[i] : i \in 1..Len(after.columns)})
    /\ after.index = before.index
    /\ Len(after.rows) = Len(before.rows)
    /\ \A k \in 1..Len(after.rows) :
        /\ \A name \in added : Cell(after, k, name) = value[name]
        /\ \A i \in 1..Len(before.columns) :
              before.columns[i] \notin added
                 => Cell(after, k, before.columns[i]) = before.rows[k][i]

CustomValue ==
    [name \in {s_custom_scheme_path, s_custom_scheme_name} |->
        IF name = s_custom_scheme_path THEN args.custom_scheme_path ELSE args.amplicon_scheme]

\* C5: in custom scheme mode the stage fails with CustomSchemePathNotFound
\* and leaves the table alone when the path does not exist; when it exists
\* the stage succeeds whatever the scheme string is, every row gets
\* custom_scheme_path = the path and custom_scheme_name = the scheme label,
\* and no scheme_name column is added.
C5_CustomScheme ==
    [][(at_stage("scheme") /\ CustomMode) =>
          IF path_exists'
          THEN /\ err' = "none"
               /\ Attached(metadata, metadata',
                           {s_custom_scheme_path, s_custom_scheme_name}, CustomValue)
               /\ HasName(metadata'.columns, s_scheme_name)
                     <=> HasName(metadata.columns, s_scheme_name)
          ELSE /\ err' = "CustomSchemePathNotFound"
               /\ metadata' = metadata]_vars

\* a custom scheme labelled "x", which is not of the built-in format, attached
C5_Witness ==
    /\ StageReturned(4) /\ CustomMode /\ path_exists
    /\ args.amplicon_scheme = v_x
    /\ Len(metadata.rows) > 0
    /\ ~HasName(metadata.columns, s_scheme_name)
    /\ \A k \in 1..Len(metadata.rows) :
          /\ Cell(metadata, k, s_custom_scheme_path) = a_custom
          /\ Cell(metadata, k, s_custom_scheme_name) = v_x

----------------------------------------------------------------------------
(* C6 *)

StageOrder == <<"load", "check", "paths", "scheme", "platform", "write">>

\* C6: every step of a run starts from a state without failure and runs the
\* next stage of load, schema check, path resolution, scheme annotation,
\* platform annotation, write; the output file changes only in the write
\* stage, and it does not exist while any stage has failed.
C6_ForwardPass ==
    [][/\ err = "none"
       /\ Len(ran) < Len(StageOrder)
       /\ ran' = Append(ran, StageOrder[Len(ran) + 1])
       /\ out' # out => (ran' = StageOrder /\ err' = "none")
       /\ err' # "none" => out' = NoFile]_vars

\* the scheme stage has failed: four stages ran and nothing was written
C6_Witness ==
    /\ StageRaised(4, "InvalidSchemeFormat")
    /\ ran = SubSeq(StageOrder, 1, 4)
    /\ out = NoFile

----------------------------------------------------------------------------
(* C7 *)

\* the rows of the input whose sample is not missing, renamed
NonNullSampleRows ==
    LET pos == {r \in 1..Len(file.rows) : InputValues(s_sample)[r] # NaN} IN
    {file.rows[r] : r \in pos}

\* C7: with both required columns matched and no repeated non-null sample or
\* barcode, the schema check returns whatever the number of rows with a
\* missing sample, and keeps exactly the rows whose sample is present.
\* Stated for the tables without a missing barcode.
C7_NullSamplesDropped ==
    (/\ Len(ran) = 2
     /\ BothMatched(file.columns) /\ CanonicalNamesUnique
     /\ ~NonNullRepeats(InputValues(s_sample))
     /\ ~NonNullRepeats(InputValues(s_barcode))
     /\ NoneMissing(InputValues(s_barcode))) =>
        /\ err = "none"
        /\ {metadata.rows[k] : k \in 1..Len(metadata.rows)} = NonNullSampleRows

----------------------------------------------------------------------------
(* C8 *)

Distinct(table, name) ==
    \A i, j \in 1..Len(table.rows) : i # j => Cell(table, i, name) # Cell(table, j, name)

UniqueAndNamed(table) ==
    /\ Distinct(table, s_sample)
    /\ Distinct(table, s_barcode)
    /\ \A k \in 1..Len(table.rows) : Cell(table, k, s_sample) # NaN

\* C8: once the schema check has returned, in every later state and in the
\* written file, samples are pairwise distinct, barcodes are pairwise
\* distinct and no sample is missing.
C8_UniqueAfterCheck ==
    /\ StageReturned(2) => UniqueAndNamed(metadata)
    /\ out.exists => UniqueAndNamed(out)

\* a file of two rows has been written
C8_Witness ==
    /\ out.exists
    /\ Len(out.rows) = 2
    /\ Len(file.rows) = 2

----------------------------------------------------------------------------
(* C9 *)

DerivedNames ==
    {s_fastq_directory, s_platform, s_scheme_name, s_custom_scheme_path, s_custom_scheme_name}

\* input columns other than the two that are renamed
PassThrough ==
    {i \in 1..Len(file.columns) :
        /\ i # FirstPosition(file.columns, s_sample)
        /\ i # FirstPosition(file.columns, s_barcode)}

\* the written rows are the frame's rows, which carry the labels of the
\* input rows in increasing order; the input columns in cols are found
\* under their names with their input values
PassedThrough(cols) ==
    /\ Len(out.rows) = Len(metadata.index)
    /\ Increasing(metadata.index)
    /\ \A k \in 1..Len(out.rows) :
        /\ InputRow(metadata.index[k]) \in 1..Len(file.rows)
        /\ \A i \in cols :
            /\ HasName(out.columns, file.columns[i])
            /\ Cell(out, k, file.columns[i]) = file.rows[InputRow(metadata.index[k])][i]

\* C9 as stated: every input column other than the two renamed ones reaches
\* the output under its name with its input values, rows in input order.
C9_AsStated == out.exists => PassedThrough(PassThrough)

\* C9 amended: the same for every input column other than the two renamed
\* ones and other than a column named fastq_directory, platform, scheme_name,
\* custom_scheme_path or custom_scheme_name, which the stages overwrite.
C9_PassThrough ==
    out.exists =>
        PassedThrough({i \in PassThrough : file.columns[i] \notin DerivedNames})

\* the second of two input rows written with its notes cell
C9_Witness ==
    /\ out.exists
    /\ Len(file.rows) = 2
    /\ file.columns = <<c_BARCODE_NAME, s_sample, c_notes>>
    /\ file.rows[1][3] = NaN
    /\ file.rows[2][3] = v_x
    /\ metadata.index = <<1>>
    /\ Cell(out, 1, c_notes) = v_x

----------------------------------------------------------------------------
(* C10 *)

\* C10: after path resolution no two rows share a fastq_directory.
C10_DistinctDirectories ==
    (StageReturned(3) /\ Len(ran) = 3) => Distinct(metadata, s_fastq_directory)

====
